---- MODULE Spec2Model ----
(***************************************************************************)
(* A model of the Intcode processor of day07 (src/day07/src/lib.rs,        *)
(* module icm): instruction fetch and decode, parameter modes, the ten     *)
(* instructions of run_instr, the run() loop, and the std::sync::mpsc      *)
(* channels (asynchronous, unbounded Sender / blocking Receiver) through   *)
(* which processors are wired to each other and to the driver.             *)
(*                                                                         *)
(* Memory is a sequence: address a of the program is element a + 1.        *)
(***************************************************************************)
EXTENDS Integers, Sequences, FiniteSets, TLC

VARIABLES
    ip,           \* [processor -> Processor.ip]
    mem,          \* [processor -> Processor.mem]
    status,       \* [processor -> "running" | "halted" | "unknown" | "panicked"]
    steps,        \* [processor -> number of run_instr calls made by run()]
    calls,        \* [processor -> number of run() calls made on it]
    jumps,        \* history: [processor -> JmpT and JmpF instructions decoded]
    chan,         \* [channel -> values sent and not yet received, oldest first]
    senderAlive,  \* [channel -> some Sender of the channel is not dropped]
    rcvAlive,     \* [channel -> the Receiver of the channel is not dropped]
    sent,         \* history: [channel -> every value sent on it, in order]
    rcvd,         \* history: [channel -> every value received from it, in order]
    harness,      \* the driver: wiring, the values it still has to send, N
    last          \* history: the last run_instr call (state before it, outcome)

vars == <<ip, mem, status, steps, calls, jumps, chan, senderAlive, rcvAlive,
          sent, rcvd, harness, last>>

-----------------------------------------------------------------------------
(* i32 arithmetic.  Every value stays inside [I32Min, I32Max]; no          *)
(* intermediate result of these operators leaves that range.               *)

I32Max == 2147483647
I32Min == -I32Max - 1

IsI32(v) == v \in Int /\ I32Min <= v /\ v <= I32Max

\* p0 + p1 does not fit an i32.
AddOverflows(a, b) ==
    \/ b > 0 /\ a > I32Max - b
    \/ b < 0 /\ a < I32Min - b

\* p0 + p1 reduced modulo 2^32 into the i32 range (overflow checks off).
WrapAdd(a, b) ==
    IF b > 0 /\ a > I32Max - b THEN I32Min + ((a - (I32Max - b)) - 1)
    ELSE IF b < 0 /\ a < I32Min - b THEN I32Max + ((a - (I32Min - b)) + 1)
    ELSE a + b

\* p0 * p1 does not fit an i32.
MulOverflows(a, b) ==
    IF a = 0 \/ b = 0 THEN FALSE
    ELSE IF a > 0 /\ b > 0 THEN a > I32Max \div b
    ELSE IF a > 0 /\ b < 0 THEN b < (I32Min + (a - 1)) \div a
    ELSE IF a < 0 /\ b > 0 THEN a < (I32Min + (b - 1)) \div b
    ELSE a = I32Min \/ b = I32Min \/ (-a) > I32Max \div (-b)

WrapNeg(a) == IF a = I32Min THEN I32Min ELSE -a

RECURSIVE WrapMulNat(_, _)
WrapMulNat(a, n) ==
    IF n = 0 THEN 0
    ELSE LET h == WrapMulNat(WrapAdd(a, a), n \div 2)
         IN  IF n % 2 = 1 THEN WrapAdd(h, a) ELSE h

\* p0 * p1 reduced modulo 2^32 into the i32 range (overflow checks off).
WrapMul(a, b) ==
    IF b >= 0 THEN WrapMulNat(a, b)
    ELSE IF b = I32Min THEN (IF a % 2 = 1 THEN I32Min ELSE 0)
    ELSE WrapNeg(WrapMulNat(a, -b))

\* Rust's / on i32 truncates toward zero (b > 0 here).
TruncDiv(a, b) ==
    IF a >= 0 \/ a % b = 0 THEN a \div b ELSE (a \div b) + 1

\* Rust's % on i32: the remainder has the sign of the dividend (b > 0 here).
Rem(a, b) == a - b * TruncDiv(a, b)

\* 10_i32.pow(nth)
RECURSIVE Pow10(_)
Pow10(n) == IF n = 0 THEN 1 ELSE 10 * Pow10(n - 1)

-----------------------------------------------------------------------------
(* Memory access.                                                          *)

InMem(m, a) == a \in 0 .. (Len(m) - 1)
Cell(m, a) == m[a + 1]
WriteCell(m, a, v) == [m EXCEPT ![a + 1] = v]

-----------------------------------------------------------------------------
(* parse_param and fetch_instruction.                                      *)

\* parse_param taking a negative position value as it stands (a cast in
\* place of try_into().unwrap()).
parse_paramCast(nth, pcode, val) ==
    IF Rem(TruncDiv(pcode, Pow10(nth)), 10) = 0
    THEN [tag |-> "Position", n |-> val]
    ELSE [tag |-> "Immediate", n |-> val]

\* parse_param with mode digit 1 alone meaning Immediate.
parse_paramOnlyOne(nth, pcode, val) ==
    IF Rem(TruncDiv(pcode, Pow10(nth)), 10) = 1
    THEN [tag |-> "Immediate", n |-> val]
    ELSE IF val >= 0 THEN [tag |-> "Position", n |-> val]
    ELSE [tag |-> "Panic", n |-> val]

\* A Param: Position(n), Immediate(n), or the panic of try_into().unwrap().
parse_param(nth, pcode, val) ==
    IF Rem(TruncDiv(pcode, Pow10(nth)), 10) = 0
    THEN IF val >= 0 THEN [tag |-> "Position", n |-> val]
         ELSE [tag |-> "Panic", n |-> val]
    ELSE [tag |-> "Immediate", n |-> val]

\* Arity with a parameter parsed for Halt as well.
ArityHaltOperand(opcode) ==
    IF opcode \in {1, 2, 7, 8} THEN 3
    ELSE IF opcode \in {5, 6} THEN 2
    ELSE IF opcode \in {3, 4, 99} THEN 1
    ELSE 0

\* Number of parameters fetch_instruction parses for an opcode.
Arity(opcode) ==
    IF opcode \in {1, 2, 7, 8} THEN 3
    ELSE IF opcode \in {5, 6} THEN 2
    ELSE IF opcode \in {3, 4} THEN 1
    ELSE 0

InstrName(opcode) ==
    CASE opcode = 1 -> "Add"
      [] opcode = 2 -> "Mul"
      [] opcode = 3 -> "Store"
      [] opcode = 4 -> "Show"
      [] opcode = 5 -> "JmpT"
      [] opcode = 6 -> "JmpF"
      [] opcode = 7 -> "CmpLt"
      [] opcode = 8 -> "CmpEq"
      [] opcode = 99 -> "Halt"
      [] OTHER -> "Unknown"

\* The parameters nth .. arity-1 of the instruction at i, parsed in order:
\* self.mem[self.ip + 1 + nth] panics beyond the end of memory, parse_param
\* panics on a negative position.  acc carries what was parsed and read.
RECURSIVE FetchParams(_, _, _, _, _, _)
FetchParams(m, i, pcode, nth, arity, acc) ==
    IF nth = arity THEN acc
    ELSE IF ~InMem(m, i + 1 + nth)
    THEN [acc EXCEPT !.err = "index out of bounds"]
    ELSE LET prm  == parse_param(nth, pcode, Cell(m, i + 1 + nth))
             acc1 == [acc EXCEPT !.reads = @ \cup {i + 1 + nth}]
         IN  IF prm.tag = "Panic"
             THEN [acc1 EXCEPT !.err = "try_into unwrap"]
             ELSE FetchParams(m, i, pcode, nth + 1, arity,
                              [acc1 EXCEPT !.params = Append(@, prm)])

\* fetch_instruction reading a Halt where ip is outside memory.
fetch_instructionHaltsOutside(m, i) ==
    IF ~InMem(m, i)
    THEN [op |-> "Halt", params |-> <<>>, reads |-> {}, err |-> ""]
    ELSE LET val    == Cell(m, i)
             opcode == Rem(val, 100)
             pcode  == TruncDiv(val, 100)
             f      == FetchParams(m, i, pcode, 0, Arity(opcode),
                                   [params |-> <<>>, reads |-> {i}, err |-> ""])
         IN  IF f.err # ""
             THEN [op |-> "Panic", params |-> f.params, reads |-> f.reads,
                   err |-> f.err]
             ELSE [op |-> InstrName(opcode), params |-> f.params,
                   reads |-> f.reads, err |-> ""]

\* An Instr (op, params), or op = "Panic" with the panic in err; reads is
\* the set of addresses read.
fetch_instruction(m, i) ==
    IF ~InMem(m, i)
    THEN [op |-> "Panic", params |-> <<>>, reads |-> {},
          err |-> "Invalid memory address"]
    ELSE LET val    == Cell(m, i)
             opcode == Rem(val, 100)
             pcode  == TruncDiv(val, 100)
             f      == FetchParams(m, i, pcode, 0, Arity(opcode),
                                   [params |-> <<>>, reads |-> {i}, err |-> ""])
         IN  IF f.err # ""
             THEN [op |-> "Panic", params |-> f.params, reads |-> f.reads,
                   err |-> f.err]
             ELSE [op |-> InstrName(opcode), params |-> f.params,
                   reads |-> f.reads, err |-> ""]

\* fetch_param: the value of a source parameter, or the index panic.
fetch_param(m, prm) ==
    IF prm.tag = "Immediate" THEN [ok |-> TRUE, v |-> prm.n, reads |-> {}]
    ELSE IF InMem(m, prm.n)
    THEN [ok |-> TRUE, v |-> Cell(m, prm.n), reads |-> {prm.n}]
    ELSE [ok |-> FALSE, v |-> 0, reads |-> {}]


-----------------------------------------------------------------------------
(* run_instr.  Each Exec operator is one arm of its match and yields the   *)
(* set of outcomes of that arm: one outcome, two where the build decides   *)
(* (arithmetic overflow panics with overflow checks on and wraps with them *)
(* off), none while recv() blocks.                                         *)
(*   ret   "true" | "false" (run_instr's return value) | "panic"           *)
(*   mem, ip   the processor's memory and ip after the call                *)
(*   recv  a value was taken from the input channel                        *)
(*   send  the values sent on the output channel (none or one)             *)
(*   reads the addresses of memory read                                    *)

Outcome(ret, op, err, m, i, recv, send, reads) ==
    [ret |-> ret, op |-> op, err |-> err, mem |-> m, ip |-> i,
     recv |-> recv, send |-> send, reads |-> reads]

\* The operands of Add, Mul, CmpLt and CmpEq: both sources are fetched,
\* then the destination must be a Position.  err names the panic, if any.
Operands(m, ins) ==
    LET a  == fetch_param(m, ins.params[1])
        b  == fetch_param(m, ins.params[2])
        d  == ins.params[3]
        rd == ins.reads \cup a.reads \cup (IF a.ok THEN b.reads ELSE {})
    IN  IF ~a.ok \/ ~b.ok
        THEN [err |-> "index out of bounds", a |-> 0, b |-> 0, dst |-> 0, reads |-> rd]
        ELSE IF d.tag # "Position"
        THEN [err |-> "Invalid parameter", a |-> a.v, b |-> b.v, dst |-> 0, reads |-> rd]
        ELSE [err |-> "", a |-> a.v, b |-> b.v, dst |-> d.n, reads |-> rd]

\* WriteResult advancing ip by 3, as the jumps do.
WriteResultShortAdvance(op, m, i, opd, values) ==
    LET Panic(e) == Outcome("panic", op, e, m, i, FALSE, <<>>, opd.reads)
    IN  IF opd.err # "" THEN {Panic(opd.err)}
        ELSE { IF ~v.ok THEN Panic("arithmetic overflow")
               ELSE IF ~InMem(m, opd.dst) THEN Panic("index out of bounds")
               ELSE Outcome("true", op, "", WriteCell(m, opd.dst, v.v), i + 3,
                            FALSE, <<>>, opd.reads)
               : v \in values }

\* self.mem[p2] = <value>; self.ip += 4, for each value the right-hand side
\* may yield (it may panic, and so may the index p2).
WriteResult(op, m, i, opd, values) ==
    LET Panic(e) == Outcome("panic", op, e, m, i, FALSE, <<>>, opd.reads)
    IN  IF opd.err # "" THEN {Panic(opd.err)}
        ELSE { IF ~v.ok THEN Panic("arithmetic overflow")
               ELSE IF ~InMem(m, opd.dst) THEN Panic("index out of bounds")
               ELSE Outcome("true", op, "", WriteCell(m, opd.dst, v.v), i + 4,
                            FALSE, <<>>, opd.reads)
               : v \in values }

\* p0 + p1
AddValues(a, b) ==
    IF AddOverflows(a, b)
    THEN {[ok |-> FALSE, v |-> 0], [ok |-> TRUE, v |-> WrapAdd(a, b)]}
    ELSE {[ok |-> TRUE, v |-> a + b]}

\* p0 * p1
MulValues(a, b) ==
    IF MulOverflows(a, b)
    THEN {[ok |-> FALSE, v |-> 0], [ok |-> TRUE, v |-> WrapMul(a, b)]}
    ELSE {[ok |-> TRUE, v |-> a * b]}

\* CmpLtValues with <= for <.
CmpLtValuesOrEqual(a, b) == {[ok |-> TRUE, v |-> IF a <= b THEN 1 ELSE 0]}

\* if p0 < p1 { self.mem[p2] = 1 } else { self.mem[p2] = 0 }
CmpLtValues(a, b) == {[ok |-> TRUE, v |-> IF a < b THEN 1 ELSE 0]}

\* if p0 == p1 { self.mem[p2] = 1 } else { self.mem[p2] = 0 }
CmpEqValues(a, b) == {[ok |-> TRUE, v |-> IF a = b THEN 1 ELSE 0]}

\* ExecAdd computing the product.
ExecAddAsMul(m, i, ins) ==
    LET opd == Operands(m, ins)
    IN  WriteResult("Add", m, i, opd, MulValues(opd.a, opd.b))

ExecAdd(m, i, ins) ==
    LET opd == Operands(m, ins)
    IN  WriteResult("Add", m, i, opd, AddValues(opd.a, opd.b))

ExecMul(m, i, ins) ==
    LET opd == Operands(m, ins)
    IN  WriteResult("Mul", m, i, opd, MulValues(opd.a, opd.b))

ExecCmpLt(m, i, ins) ==
    LET opd == Operands(m, ins)
    IN  WriteResult("CmpLt", m, i, opd, CmpLtValues(opd.a, opd.b))

ExecCmpEq(m, i, ins) ==
    LET opd == Operands(m, ins)
    IN  WriteResult("CmpEq", m, i, opd, CmpEqValues(opd.a, opd.b))

\* Recv that reports the closed channel before it looks at the queue.
RecvClosedFirst(inq, inAlive) ==
    IF ~inAlive THEN {[ok |-> FALSE, v |-> 0]}
    ELSE IF inq # <<>> THEN {[ok |-> TRUE, v |-> Head(inq)]}
    ELSE {}

\* Recv that yields the newest queued value.
RecvNewest(inq, inAlive) ==
    IF inq # <<>> THEN {[ok |-> TRUE, v |-> inq[Len(inq)]]}
    ELSE IF ~inAlive THEN {[ok |-> FALSE, v |-> 0]}
    ELSE {}

\* Receiver::recv on the input channel: the oldest value when one is queued
\* (also after every Sender is gone), an error when the queue is empty and
\* every Sender is gone, and otherwise it blocks.
Recv(inq, inAlive) ==
    IF inq # <<>> THEN {[ok |-> TRUE, v |-> Head(inq)]}
    ELSE IF ~inAlive THEN {[ok |-> FALSE, v |-> 0]}
    ELSE {}

\* ExecStore on a memory that grows by one cell when the destination is
\* beyond its end.
ExecStoreGrows(m, i, ins, inq, inAlive) ==
    LET d == ins.params[1]
        Panic(e, took) == Outcome("panic", "Store", e, m, i, took, <<>>, ins.reads)
    IN  IF d.tag # "Position" THEN {Panic("Invalid parameter", FALSE)}
        ELSE { IF ~r.ok THEN Panic("Processor recv() error", FALSE)
               ELSE IF ~InMem(m, d.n)
               THEN Outcome("true", "Store", "", Append(m, r.v), i + 2,
                            TRUE, <<>>, ins.reads)
               ELSE Outcome("true", "Store", "", WriteCell(m, d.n, r.v), i + 2,
                            TRUE, <<>>, ins.reads)
               : r \in Recv(inq, inAlive) }

\* ExecStore with recv() called before the destination is looked at.
ExecStoreRecvFirst(m, i, ins, inq, inAlive) ==
    LET d == ins.params[1]
        Panic(e, took) == Outcome("panic", "Store", e, m, i, took, <<>>, ins.reads)
    IN  { IF ~r.ok THEN Panic("Processor recv() error", FALSE)
          ELSE IF d.tag # "Position" THEN Panic("Invalid parameter", TRUE)
          ELSE IF ~InMem(m, d.n) THEN Panic("index out of bounds", TRUE)
          ELSE Outcome("true", "Store", "", WriteCell(m, d.n, r.v), i + 2,
                       TRUE, <<>>, ins.reads)
          : r \in Recv(inq, inAlive) }

\* The destination must be a Position; then recv(); then the write, whose
\* index may be beyond memory after the value was taken; ip += 2.
ExecStore(m, i, ins, inq, inAlive) ==
    LET d == ins.params[1]
        Panic(e, took) == Outcome("panic", "Store", e, m, i, took, <<>>, ins.reads)
    IN  IF d.tag # "Position" THEN {Panic("Invalid parameter", FALSE)}
        ELSE { IF ~r.ok THEN Panic("Processor recv() error", FALSE)
               ELSE IF ~InMem(m, d.n) THEN Panic("index out of bounds", TRUE)
               ELSE Outcome("true", "Store", "", WriteCell(m, d.n, r.v), i + 2,
                            TRUE, <<>>, ins.reads)
               : r \in Recv(inq, inAlive) }

\* Send of a rendezvous channel: it waits while a value sent earlier has
\* not been received.
SendRendezvous(outq, outAlive) ==
    IF ~outAlive THEN {[ok |-> FALSE]}
    ELSE IF outq # <<>> THEN {}
    ELSE {[ok |-> TRUE]}

\* Sender::send on the output channel (std::sync::mpsc::Sender, the sending
\* half of an asynchronous channel): it never blocks, whatever is queued,
\* and fails only when the Receiver is gone.
Send(outq, outAlive) ==
    IF ~outAlive THEN {[ok |-> FALSE]} ELSE {[ok |-> TRUE]}

\* ExecShow that leaves ip on the Show.
ExecShowStays(m, i, ins, outq, outAlive) ==
    LET a  == fetch_param(m, ins.params[1])
        rd == ins.reads \cup a.reads
        Panic(e) == Outcome("panic", "Show", e, m, i, FALSE, <<>>, rd)
    IN  IF ~a.ok THEN {Panic("index out of bounds")}
        ELSE { IF ~r.ok THEN Panic("Processor output channel send error.")
               ELSE Outcome("true", "Show", "", m, i, FALSE, <<a.v>>, rd)
               : r \in Send(outq, outAlive) }

\* ExecShow sending the parameter as it stands in the instruction, without
\* fetch_param.
ExecShowRaw(m, i, ins, outq, outAlive) ==
    { IF ~r.ok
      THEN Outcome("panic", "Show", "Processor output channel send error.", m, i,
                   FALSE, <<>>, ins.reads)
      ELSE Outcome("true", "Show", "", m, i + 2, FALSE, <<ins.params[1].n>>,
                   ins.reads)
      : r \in Send(outq, outAlive) }

\* The source is fetched, then send(), then ip += 2.
ExecShow(m, i, ins, outq, outAlive) ==
    LET a  == fetch_param(m, ins.params[1])
        rd == ins.reads \cup a.reads
        Panic(e) == Outcome("panic", "Show", e, m, i, FALSE, <<>>, rd)
    IN  IF ~a.ok THEN {Panic("index out of bounds")}
        ELSE { IF ~r.ok THEN Panic("Processor output channel send error.")
               ELSE Outcome("true", "Show", "", m, i + 2, FALSE, <<a.v>>, rd)
               : r \in Send(outq, outAlive) }

\* JumpTo storing the target in ip without the conversion to usize.
JumpToUnchecked(op, m, i, ins, rd) ==
    LET t   == fetch_param(m, ins.params[2])
        rd1 == rd \cup t.reads
    IN  IF ~t.ok
        THEN {Outcome("panic", op, "index out of bounds", m, i, FALSE, <<>>, rd1)}
        ELSE {Outcome("true", op, "", m, t.v, FALSE, <<>>, rd1)}

\* The taken branch of JmpT and JmpF: self.ip = p1.try_into().unwrap()
JumpTo(op, m, i, ins, rd) ==
    LET t   == fetch_param(m, ins.params[2])
        rd1 == rd \cup t.reads
    IN  IF ~t.ok
        THEN {Outcome("panic", op, "index out of bounds", m, i, FALSE, <<>>, rd1)}
        ELSE IF t.v < 0
        THEN {Outcome("panic", op, "try_into unwrap", m, i, FALSE, <<>>, rd1)}
        ELSE {Outcome("true", op, "", m, t.v, FALSE, <<>>, rd1)}

\* ExecJmpT that jumps without testing the condition.
ExecJmpTAlways(m, i, ins) ==
    LET c  == fetch_param(m, ins.params[1])
        rd == ins.reads \cup c.reads
    IN  IF ~c.ok
        THEN {Outcome("panic", "JmpT", "index out of bounds", m, i, FALSE, <<>>, rd)}
        ELSE JumpTo("JmpT", m, i, ins, rd)

ExecJmpT(m, i, ins) ==
    LET c  == fetch_param(m, ins.params[1])
        rd == ins.reads \cup c.reads
    IN  IF ~c.ok
        THEN {Outcome("panic", "JmpT", "index out of bounds", m, i, FALSE, <<>>, rd)}
        ELSE IF c.v = 0
        THEN {Outcome("true", "JmpT", "", m, i + 3, FALSE, <<>>, rd)}
        ELSE JumpTo("JmpT", m, i, ins, rd)

\* ExecJmpF with the branches of ExecJmpT.
ExecJmpFNotNegated(m, i, ins) == ExecJmpT(m, i, ins)

ExecJmpF(m, i, ins) ==
    LET c  == fetch_param(m, ins.params[1])
        rd == ins.reads \cup c.reads
    IN  IF ~c.ok
        THEN {Outcome("panic", "JmpF", "index out of bounds", m, i, FALSE, <<>>, rd)}
        ELSE IF c.v = 0
        THEN JumpTo("JmpF", m, i, ins, rd)
        ELSE {Outcome("true", "JmpF", "", m, i + 3, FALSE, <<>>, rd)}

\* ExecUnknown that skips the word and lets run() go on.
ExecUnknownSkips(m, i, ins) ==
    {Outcome("true", "Unknown", "Invalid instruction", m, i + 1, FALSE, <<>>,
             ins.reads)}

\* Instr::Unknown: prints and returns false.
ExecUnknown(m, i, ins) ==
    {Outcome("false", "Unknown", "Invalid instruction", m, i, FALSE, <<>>, ins.reads)}

\* ExecHalt stepping over the 99 before it returns false.
ExecHaltAdvances(m, i, ins) ==
    {Outcome("false", "Halt", "", m, i + 1, FALSE, <<>>, ins.reads)}

\* Instr::Halt: returns false.
ExecHalt(m, i, ins) ==
    {Outcome("false", "Halt", "", m, i, FALSE, <<>>, ins.reads)}

\* One call of run_instr on memory m at ip i, with the input channel's
\* queue inq, whether a Sender of it is alive, the output channel's queue
\* outq, and whether its Receiver is alive.
run_instr(m, i, inq, inAlive, outq, outAlive) ==
    LET ins == fetch_instruction(m, i)
    IN  CASE ins.op = "Panic" ->
                {Outcome("panic", "Panic", ins.err, m, i, FALSE, <<>>, ins.reads)}
          [] ins.op = "Unknown" -> ExecUnknown(m, i, ins)
          [] ins.op = "Halt"    -> ExecHalt(m, i, ins)
          [] ins.op = "Add"     -> ExecAdd(m, i, ins)
          [] ins.op = "Mul"     -> ExecMul(m, i, ins)
          [] ins.op = "Store"   -> ExecStore(m, i, ins, inq, inAlive)
          [] ins.op = "Show"    -> ExecShow(m, i, ins, outq, outAlive)
          [] ins.op = "JmpT"    -> ExecJmpT(m, i, ins)
          [] ins.op = "JmpF"    -> ExecJmpF(m, i, ins)
          [] ins.op = "CmpLt"   -> ExecCmpLt(m, i, ins)
          [] ins.op = "CmpEq"   -> ExecCmpEq(m, i, ins)

-----------------------------------------------------------------------------
(* Bounds of the model.                                                    *)

\* The feedback loop is run for 1 .. MaxTrips round trips.
MaxTrips == 2

\* run() is followed for at most this many run_instr calls per processor:
\* enough for a feedback program to finish MaxTrips round trips.
MaxSteps == 6 * (MaxTrips + 1) + 2

\* After run() returned through Halt or Unknown, the owner of the processor
\* calls run() again up to this many times.
MaxReruns == 1

-----------------------------------------------------------------------------
(* Memory images.                                                          *)

\* One instruction at address 0 followed by its operand cells and a last
\* cell: every instruction, every combination of parameter modes, and
\* words that are no instruction (0, negative, unknown low digits).
ThreeParamWords ==
    { o + 100 * a + 1000 * b + 10000 * c :
        o \in {1, 2, 7, 8}, a \in {0, 1}, b \in {0, 1}, c \in {0, 1} }
TwoParamWords ==
    { o + 100 * a + 1000 * b : o \in {5, 6}, a \in {0, 1}, b \in {0, 1} }
OneParamWords == { o + 100 * a : o \in {3, 4}, a \in {0, 1} }
OtherWords == {99, 199, 0, 9, 50, 100, -1, -99, 204, 2105, 90007}
\* Words with the mode digits 2 .. 9, in each of the three digit places.
ModeDigitWords == {304, 4005, 501, 6002, 70008, 8106, 9904, 32207}
UnitWords ==
    ThreeParamWords \cup TwoParamWords \cup OneParamWords \cup OtherWords
        \cup ModeDigitWords

SrcVals == {-1, 0, 1, 4, 5, I32Max}
DstVals == {-1, 0, 4, 5, 6}
TailVals == {99, 0, I32Min}

UnitImages ==
    { <<w, x, y, z, t>> :
        w \in UnitWords, x \in SrcVals, y \in SrcVals, z \in DstVals,
        t \in TailVals }

\* Store addr; Show addr; Halt, and one data cell.
EchoImage(addr) == <<3, addr, 4, addr, 99, 0>>

\* Add 4 + 5 (both immediate) into address 6, a Halt at address 4.
AddHaltImage == <<1101, 4, 5, 6, 0, 0, 99>>

\* Two Stores, then the stored values shown in order, then an immediate.
FifoImage == <<3, 11, 3, 12, 4, 11, 4, 12, 104, 5, 99, 0, 0>>

\* The feedback program.  c (19) is the counter, 20 holds the bound, t (21)
\* a flag:
\*    0: Store c            2: t := c < bound      6: JmpF t -> 13
\*    9: c := 1 + c        13: Show c             15: JmpT t -> 0
\*   18: Halt
\* It takes a counter, and forwards it incremented while it is below the
\* bound; a counter at the bound is forwarded as it is and the program halts.
CounterImage(bound) ==
    <<3, 19, 7, 19, 20, 21, 1006, 21, 13, 101, 1, 19, 19, 4, 19,
      1005, 21, 0, 99, 0, bound, 0>>

-----------------------------------------------------------------------------
(* The state after construction: Processor::new for each processor, the    *)
(* channels created and wired by the driver, run() called on each          *)
(* processor's own thread.                                                 *)

Channels(procs) == procs \cup {"drv"}

NoStep ==
    [proc |-> "none", op |-> "none", ret |-> "none", err |-> "", ip |-> 0,
     mem |-> <<>>, chan |-> <<>>, recv |-> FALSE, send |-> <<>>, reads |-> {},
     params |-> <<>>]

\* images: [processor -> memory]; wire: [processor -> the channel its output
\* Sender feeds]; queued: values the driver sent to A before run();
\* toSend: values the driver sends to A while the processors run; mayDrop:
\* the driver may drop its endpoints; addr, trips: the address of the echo
\* program and the round trips N of the feedback programs.  The driver
\* keeps in size the length of the memory it gave each processor.
Setup(name, images, wire, queued, toSend, mayDrop, addr, trips) ==
    LET procs == DOMAIN images
        chans == Channels(procs)
    IN  /\ ip = [p \in procs |-> 0]
        /\ mem = images
        /\ status = [p \in procs |-> "running"]
        /\ steps = [p \in procs |-> 0]
        /\ calls = [p \in procs |-> 1]
        /\ jumps = [p \in procs |-> 0]
        /\ chan = [c \in chans |-> IF c = "A" THEN queued ELSE <<>>]
        /\ senderAlive = [c \in chans |-> TRUE]
        /\ rcvAlive = [c \in chans |-> TRUE]
        /\ sent = [c \in chans |-> IF c = "A" THEN queued ELSE <<>>]
        /\ rcvd = [c \in chans |-> <<>>]
        /\ harness = [name |-> name, wire |-> wire, toSend |-> toSend,
                      mayDrop |-> mayDrop, addr |-> addr, trips |-> trips,
                      size |-> [p \in procs |-> Len(images[p])]]
        /\ last = NoStep

Single(m) == [p \in {"A"} |-> m]
ToDriver == [p \in {"A"} |-> "drv"]

InitUnit ==
    \E m \in UnitImages :
        Setup("unit", Single(m), ToDriver, <<7>>, <<>>, FALSE, 0, 0)

InitEcho ==
    \E addr \in 0 .. 5, v \in {-1, 4, 7, 99}, d \in BOOLEAN :
        Setup("echo", Single(EchoImage(addr)), ToDriver, <<>>, <<v>>, d, addr, 0)

InitAddHalt ==
    Setup("addhalt", Single(AddHaltImage), ToDriver, <<>>, <<>>, FALSE, 0, 0)

InitHaltOnly ==
    Setup("halt", Single(<<99>>), ToDriver, <<>>, <<>>, FALSE, 0, 0)

InitFifo ==
    \E vs \in {<<7, 8>>, <<8, 7>>, <<7>>}, d \in BOOLEAN :
        Setup("fifo", Single(FifoImage), ToDriver, <<>>, vs, d, 0, 0)

InitFeedback ==
    \E n \in 1 .. MaxTrips :
        Setup("feedback",
              [p \in {"A", "B"} |-> CounterImage(2 * n)],
              [p \in {"A", "B"} |-> IF p = "A" THEN "B" ELSE "A"],
              <<>>, <<0>>, FALSE, 0, n)

InitMachine ==
    InitEcho \/ InitAddHalt \/ InitHaltOnly \/ InitFifo \/ InitFeedback

Init == InitUnit \/ InitMachine

-----------------------------------------------------------------------------
(* Actions.                                                                *)

\* One iteration of the loop of run() on processor p: a run_instr call.
Step(p) ==
    /\ p \in DOMAIN ip
    /\ status[p] = "running"
    /\ steps[p] < MaxSteps
    /\ LET w == harness.wire[p]
       IN  \E r \in run_instr(mem[p], ip[p], chan[p], senderAlive[p],
                               chan[w], rcvAlive[w]) :
             LET taken == IF r.recv THEN [chan EXCEPT ![p] = Tail(@)] ELSE chan
             IN  /\ ip' = [ip EXCEPT ![p] = r.ip]
                 /\ mem' = [mem EXCEPT ![p] = r.mem]
                 /\ status' = [status EXCEPT ![p] =
                        CASE r.ret = "true" -> "running"
                          [] r.ret = "panic" -> "panicked"
                          [] r.op = "Halt" -> "halted"
                          [] OTHER -> "unknown"]
                 /\ steps' = [steps EXCEPT ![p] = @ + 1]
                 /\ jumps' = [jumps EXCEPT ![p] =
                        IF r.op \in {"JmpT", "JmpF"} THEN @ + 1 ELSE @]
                 /\ chan' = IF r.send = <<>> THEN taken
                            ELSE [taken EXCEPT ![w] = Append(@, r.send[1])]
                 /\ rcvd' = IF r.recv THEN [rcvd EXCEPT ![p] = Append(@, Head(chan[p]))]
                            ELSE rcvd
                 /\ sent' = IF r.send = <<>> THEN sent
                            ELSE [sent EXCEPT ![w] = Append(@, r.send[1])]
                 /\ last' = [proc |-> p, op |-> r.op, ret |-> r.ret, err |-> r.err,
                             ip |-> ip[p], mem |-> mem[p], chan |-> chan,
                             recv |-> r.recv, send |-> r.send, reads |-> r.reads,
                             params |-> fetch_instruction(mem[p], ip[p]).params]
                 /\ UNCHANGED <<calls, senderAlive, rcvAlive, harness>>

\* The owner of processor p, whose run() returned through Halt or Unknown,
\* calls run() again: the loop starts over from the ip and the memory the
\* earlier call left (the Processor keeps no record of having stopped).
Rerun(p) ==
    /\ p \in DOMAIN ip
    /\ status[p] \in {"halted", "unknown"}
    /\ calls[p] <= MaxReruns
    /\ calls' = [calls EXCEPT ![p] = @ + 1]
    /\ status' = [status EXCEPT ![p] = "running"]
    /\ steps' = [steps EXCEPT ![p] = 0]
    /\ last' = NoStep
    /\ UNCHANGED <<ip, mem, jumps, chan, senderAlive, rcvAlive, sent, rcvd,
                   harness>>

\* The driver sends its next value into A's input channel.
DriverSend ==
    /\ harness.toSend # <<>>
    /\ senderAlive["A"]
    /\ chan' = [chan EXCEPT !["A"] = Append(@, Head(harness.toSend))]
    /\ sent' = [sent EXCEPT !["A"] = Append(@, Head(harness.toSend))]
    /\ harness' = [harness EXCEPT !.toSend = Tail(@)]
    /\ last' = NoStep
    /\ UNCHANGED <<ip, mem, status, steps, calls, jumps, senderAlive, rcvAlive, rcvd>>

\* The driver receives the oldest value of the channel it listens on.
DriverRecv ==
    /\ rcvAlive["drv"]
    /\ chan["drv"] # <<>>
    /\ chan' = [chan EXCEPT !["drv"] = Tail(@)]
    /\ rcvd' = [rcvd EXCEPT !["drv"] = Append(@, Head(chan["drv"]))]
    /\ last' = NoStep
    /\ UNCHANGED <<ip, mem, status, steps, calls, jumps, senderAlive, rcvAlive, sent, harness>>

\* The driver drops its Sender of A's input channel.
DriverDropSender ==
    /\ harness.mayDrop
    /\ senderAlive["A"]
    /\ senderAlive' = [senderAlive EXCEPT !["A"] = FALSE]
    /\ last' = NoStep
    /\ UNCHANGED <<ip, mem, status, steps, calls, jumps, chan, rcvAlive, sent, rcvd, harness>>

\* The driver drops the Receiver it listens on.
DriverDropReceiver ==
    /\ harness.mayDrop
    /\ rcvAlive["drv"]
    /\ rcvAlive' = [rcvAlive EXCEPT !["drv"] = FALSE]
    /\ last' = NoStep
    /\ UNCHANGED <<ip, mem, status, steps, calls, jumps, chan, senderAlive, sent, rcvd, harness>>

Next ==
    \/ \E p \in {"A", "B"} : Step(p)
    \/ \E p \in {"A", "B"} : Rerun(p)
    \/ DriverSend
    \/ DriverRecv
    \/ DriverDropSender
    \/ DriverDropReceiver

Spec == Init /\ [][Next]_vars

\* Every processor runs on a thread of its own, which the scheduler does
\* not starve.
Fairness == \A p \in {"A", "B"} : WF_vars(Step(p))

MachineSpec == InitMachine /\ [][Next]_vars /\ Fairness

-----------------------------------------------------------------------------
(* The vocabulary of the properties.  They speak of the last run_instr     *)
(* call through the state before it (last.ip, last.mem, last.chan) and of  *)
(* the instruction word as the specification describes it: the opcode is   *)
(* the two low decimal digits of the word, the mode of parameter n is      *)
(* decimal digit n of the digits above them.                               *)

Stepped == last.proc # "none"
PreWord == Cell(last.mem, last.ip)
ModeDigit(w, n) == ((w \div 100) \div Pow10(n)) % 10
Operand(n) == Cell(last.mem, last.ip + 1 + n)

\* The last call decoded a word whose opcode is one of codes.
IsInstr(codes) ==
    /\ Stepped
    /\ InMem(last.mem, last.ip)
    /\ PreWord > 0
    /\ PreWord % 100 \in codes

\* Parameter n is a literal, or an address inside memory.
SourceInBounds(n) ==
    ModeDigit(PreWord, n) = 0 => InMem(last.mem, Operand(n))

\* The value of source parameter n, read from memory as it was before the step.
SourceValue(n) ==
    IF ModeDigit(PreWord, n) = 0 THEN Cell(last.mem, Operand(n)) ELSE Operand(n)

\* The step failed and left the processor's memory and ip as they were.
FailedUntouched ==
    /\ last.ret = "panic"
    /\ status[last.proc] = "panicked"
    /\ mem[last.proc] = last.mem
    /\ ip[last.proc] = last.ip

\* The step wrote v to the cell its third parameter addresses, ip += 4.
Wrote(v) ==
    /\ last.ret = "true"
    /\ Cell(mem[last.proc], Operand(2)) = v
    /\ ip[last.proc] = last.ip + 4

-----------------------------------------------------------------------------
(* C1: Add, Mul, LessThan, Equals.                                         *)

\* An Add, Mul, LessThan or Equals whose three operand cells are in memory,
\* whose position sources address memory and whose destination is a
\* position inside memory.
C1_Case ==
    /\ IsInstr({1, 2, 7, 8})
    /\ InMem(last.mem, last.ip + 3)
    /\ SourceInBounds(0)
    /\ SourceInBounds(1)
    /\ ModeDigit(PreWord, 2) = 0
    /\ InMem(last.mem, Operand(2))

\* C1 as claimed: for every combination of source modes and source values
\* the step writes exactly src0+src1 (Add), src0*src1 (Mul), src0<src1 as
\* 1/0 (LessThan), src0=src1 as 1/0 (Equals) and sets ip to ip+4.  A sum or
\* product outside the i32 range is the value of no cell.
C1_AsClaimed ==
    C1_Case =>
        LET a  == SourceValue(0)
            b  == SourceValue(1)
            op == PreWord % 100
        IN  CASE op = 1 -> ~AddOverflows(a, b) /\ Wrote(a + b)
              [] op = 2 -> ~MulOverflows(a, b) /\ Wrote(a * b)
              [] op = 7 -> Wrote(IF a < b THEN 1 ELSE 0)
              [] op = 8 -> Wrote(IF a = b THEN 1 ELSE 0)

\* C1 (amended): the same whenever the sum or product fits an i32; when it
\* does not, the step either panics leaving memory and ip untouched
\* (overflow checks on) or writes the result reduced modulo 2^32 and sets ip
\* to ip+4 (overflow checks off).  LessThan and Equals hold for all values.
C1_ArithmeticStep ==
    C1_Case =>
        LET a  == SourceValue(0)
            b  == SourceValue(1)
            op == PreWord % 100
        IN  CASE op = 1 -> IF AddOverflows(a, b)
                           THEN FailedUntouched \/ Wrote(WrapAdd(a, b))
                           ELSE Wrote(a + b)
              [] op = 2 -> IF MulOverflows(a, b)
                           THEN FailedUntouched \/ Wrote(WrapMul(a, b))
                           ELSE Wrote(a * b)
              [] op = 7 -> Wrote(IF a < b THEN 1 ELSE 0)
              [] op = 8 -> Wrote(IF a = b THEN 1 ELSE 0)

\* A Mul of a position source and an immediate source has changed its
\* destination cell.
C1_Witness ==
    /\ C1_Case
    /\ PreWord % 100 = 2
    /\ ModeDigit(PreWord, 0) = 0
    /\ ModeDigit(PreWord, 1) # 0
    /\ last.ret = "true"
    /\ Cell(mem[last.proc], Operand(2)) # Cell(last.mem, Operand(2))

-----------------------------------------------------------------------------
(* C2: JumpIfTrue and JumpIfFalse.                                         *)

\* A jump whose two operand cells are in memory and whose position
\* parameters address memory.
C2_Case ==
    /\ IsInstr({5, 6})
    /\ InMem(last.mem, last.ip + 2)
    /\ SourceInBounds(0)
    /\ SourceInBounds(1)

\* The jump is taken: JumpIfTrue on a non-zero condition, JumpIfFalse on 0.
C2_Taken == (PreWord % 100 = 5) = (SourceValue(0) # 0)

C2_Frame ==
    /\ mem[last.proc] = last.mem
    /\ chan = last.chan

\* C2 as claimed: an untaken jump sets ip to ip+3, a taken jump sets ip to
\* the resolved value of the target exactly; memory and channels unchanged.
C2_AsClaimed ==
    C2_Case =>
        /\ last.ret = "true"
        /\ ip[last.proc] = IF C2_Taken THEN SourceValue(1) ELSE last.ip + 3
        /\ C2_Frame

\* C2 (amended): as claimed when the resolved target is not negative; a
\* taken jump to a negative target fails and leaves ip where it was.
\* Memory and channels are unchanged in every case.
C2_JumpStep ==
    C2_Case =>
        /\ IF C2_Taken /\ SourceValue(1) < 0
           THEN FailedUntouched
           ELSE /\ last.ret = "true"
                /\ ip[last.proc] = IF C2_Taken THEN SourceValue(1) ELSE last.ip + 3
        /\ C2_Frame

\* A JumpIfFalse on a zero condition read from memory has jumped to a
\* target other than ip+3.
C2_Witness ==
    /\ C2_Case
    /\ PreWord % 100 = 6
    /\ ModeDigit(PreWord, 0) = 0
    /\ SourceValue(0) = 0
    /\ last.ret = "true"
    /\ ip[last.proc] = SourceValue(1)
    /\ ip[last.proc] # last.ip + 3

-----------------------------------------------------------------------------
(* C3: the program 1101,4,5,6,0,0,99.                                      *)

\* C3: from ip = 0 and memory [1101,4,5,6,0,0,99], the first step leaves
\* memory[6] = 9, ip = 4 and every other cell unchanged; the second step
\* halts the run with ip still 4 and memory unchanged.  (The sum replaces
\* the 99 at address 6 and the word at address 4 is 0: the second call of
\* run_instr returns false through the Unknown arm, and run() returns.)
C3_AddThenHalt ==
    (harness.name = "addhalt" /\ calls["A"] = 1) =>
        /\ steps["A"] = 0 =>
              ip["A"] = 0 /\ mem["A"] = <<1101, 4, 5, 6, 0, 0, 99>>
        /\ steps["A"] = 1 =>
              /\ status["A"] = "running"
              /\ ip["A"] = 4
              /\ mem["A"] = <<1101, 4, 5, 6, 0, 0, 9>>
        /\ steps["A"] >= 2 =>
              /\ steps["A"] = 2
              /\ status["A"] = "unknown"
              /\ ip["A"] = 4
              /\ mem["A"] = <<1101, 4, 5, 6, 0, 0, 9>>

\* The second step of that program has been taken.
C3_Witness ==
    /\ harness.name = "addhalt"
    /\ steps["A"] = 2
    /\ last.ret = "false"
    /\ status["A"] # "running"

-----------------------------------------------------------------------------
(* C4: the echo program Store addr; Show addr; Halt.                       *)

\* The echo program under a driver that keeps its endpoints.
EchoRun == harness.name = "echo" /\ ~harness.mayDrop

\* The run has halted on the Halt and exactly the value sent in came out.
EchoDone ==
    /\ status["A"] = "halted"
    /\ sent["A"] # <<>>
    /\ sent["drv"] = <<sent["A"][1]>>

\* C4 as claimed, for every valid addr, as the result of a finished run:
\* once run() has ended it has halted and the output channel was sent
\* exactly the value v.
C4_AsClaimed == (EchoRun /\ status["A"] # "running") => EchoDone

\* addr is none of the cells the program still executes after the Store:
\* the Show word (2), the Show operand (3), the Halt word (4).
EchoClear == EchoRun /\ harness.addr \notin {2, 3, 4}

\* C4 (amended): for addr a valid address other than 2, 3 and 4 and every
\* value v sent on the input channel, run() eventually halts and the output
\* channel has been sent exactly one value, v; no other value is ever sent.
C4_Echo ==
    /\ (EchoClear /\ sent["A"] # <<>>) ~> (EchoClear /\ EchoDone)
    /\ [](EchoClear => (sent["drv"] = <<>> \/ sent["drv"] = <<sent["A"][1]>>))

\* The echo program at addr = 1 has halted after echoing -1.
C4_Witness ==
    /\ EchoClear
    /\ harness.addr = 1
    /\ EchoDone
    /\ sent["drv"] = <<-1>>

-----------------------------------------------------------------------------
(* C5: words that are no instruction.                                      *)

\* The word at ip is 0, negative, or has low two digits outside 1..8, 99.
C5_Case ==
    /\ Stepped
    /\ InMem(last.mem, last.ip)
    /\ (PreWord <= 0 \/ PreWord % 100 \notin ((1 .. 8) \cup {99}))

\* The step reported the unknown instruction and returned false, it read
\* the word at ip only, and memory, ip and both channels are as before.
C5_Step ==
    C5_Case =>
        /\ last.ret = "false"
        /\ last.op = "Unknown"
        /\ status[last.proc] = "unknown"
        /\ last.reads = {last.ip}
        /\ mem[last.proc] = last.mem
        /\ ip[last.proc] = last.ip
        /\ chan = last.chan

\* After the unknown instruction run() has returned: the processor makes
\* no further run_instr call and its memory and ip stay; the one thing that
\* can happen to it is a new call of run() by its owner.
C5_Stopped ==
    \A p \in DOMAIN status :
        status[p] = "unknown" =>
            /\ mem'[p] = mem[p]
            /\ ip'[p] = ip[p]
            /\ \/ status'[p] = "unknown" /\ steps'[p] = steps[p]
                                        /\ calls'[p] = calls[p]
               \/ calls'[p] = calls[p] + 1 /\ steps'[p] = 0

\* C5: a word at ip that is no instruction (0 and negative words included)
\* makes the step report the error and run() stop: no further instruction
\* is fetched, no operand cell is read, and memory (with the writes of
\* earlier steps), ip and both channels are as before the step.
C5_UnknownStops == []C5_Step /\ [][C5_Stopped]_vars

\* After an earlier step wrote to memory, the negative word in the last
\* cell stopped the run.
C5_Witness ==
    /\ C5_Case
    /\ PreWord < 0
    /\ last.ip = 4
    /\ steps[last.proc] = 2
    /\ status[last.proc] = "unknown"
    /\ Cell(last.mem, 0) \notin UnitWords

-----------------------------------------------------------------------------
(* C6: immediate destinations.                                             *)

\* Add, Mul, LessThan, Equals (third parameter) or Store (first parameter)
\* with a non-zero mode digit for the destination.
C6_Case ==
    \/ IsInstr({1, 2, 7, 8}) /\ ModeDigit(PreWord, 2) # 0
    \/ IsInstr({3}) /\ ModeDigit(PreWord, 0) # 0

\* C6: an instruction whose destination has a non-zero mode digit fails
\* fatally and writes nothing: memory and ip are unchanged and, for Store,
\* no value is taken from the input channel.
C6_ImmediateDestination ==
    C6_Case =>
        /\ FailedUntouched
        /\ ~last.recv
        /\ chan = last.chan

\* A Store with an immediate destination failed while a value was waiting
\* on its input channel.
C6_Witness ==
    /\ IsInstr({3})
    /\ ModeDigit(PreWord, 0) # 0
    /\ last.err = "Invalid parameter"
    /\ chan[last.proc] # <<>>

-----------------------------------------------------------------------------
(* C7: Halt.                                                               *)

\* C7: a Halt at ip stops run() in that step, reading the cell at ip only
\* (also when it is the last cell of memory, as in the program [99]), and
\* memory, ip and both channels are unchanged by the step.
C7_Halt ==
    IsInstr({99}) =>
        /\ last.ret = "false"
        /\ last.op = "Halt"
        /\ status[last.proc] = "halted"
        /\ last.reads = {last.ip}
        /\ mem[last.proc] = last.mem
        /\ ip[last.proc] = last.ip
        /\ chan = last.chan

\* The one-cell program [99] has halted at ip = 0.
C7_Witness ==
    /\ IsInstr({99})
    /\ last.mem = <<99>>
    /\ last.ip = 0
    /\ status[last.proc] = "halted"

-----------------------------------------------------------------------------
(* C8: two processors in a feedback loop.                                  *)

FeedbackRun == harness.name = "feedback"
BothHalted == status["A"] = "halted" /\ status["B"] = "halted"

\* The counter cell of the feedback program.
Counter(p) == Cell(mem[p], 19)

\* A round trip is a value that came back to A from B: every value A
\* received but the seed.
RoundTrips == Len(rcvd["A"]) - 1

\* C8: A and B run the counter program, A's output wired to B's input and
\* B's to A's, one seed injected: under fair scheduling both processors
\* eventually halt, exactly N round trips occur, and both hold the same
\* final counter value.
C8_Feedback ==
    /\ (FeedbackRun /\ sent["A"] # <<>>) ~> (FeedbackRun /\ BothHalted)
    /\ [](FeedbackRun => RoundTrips <= harness.trips)
    /\ []((FeedbackRun /\ BothHalted) =>
            /\ RoundTrips = harness.trips
            /\ Counter("A") = Counter("B")
            /\ Counter("A") = 2 * harness.trips)

\* Both processors have halted after MaxTrips round trips.
C8_Witness ==
    /\ FeedbackRun
    /\ BothHalted
    /\ harness.trips = MaxTrips
    /\ RoundTrips = MaxTrips
    /\ Counter("A") = Counter("B")

-----------------------------------------------------------------------------
(* C9: Show and its receiver.                                              *)

\* The last step was a Show that went through, and its value is still the
\* newest value waiting in the output channel.
ShowUnreceived ==
    /\ Stepped
    /\ last.op = "Show"
    /\ last.ret = "true"
    /\ chan[harness.wire[last.proc]] # <<>>
    /\ chan[harness.wire[last.proc]] =
          Append(last.chan[harness.wire[last.proc]], last.send[1])

AtShow(p) ==
    /\ status[p] = "running"
    /\ steps[p] < MaxSteps
    /\ InMem(mem[p], ip[p])
    /\ InMem(mem[p], ip[p] + 1)
    /\ Cell(mem[p], ip[p]) > 0
    /\ Cell(mem[p], ip[p]) % 100 = 4
    /\ (ModeDigit(Cell(mem[p], ip[p]), 0) = 0 => InMem(mem[p], Cell(mem[p], ip[p] + 1)))

-----------------------------------------------------------------------------
(* C10: FIFO delivery.                                                     *)

\* The k-th Store (k receives made so far) wrote the k-th value sent on the
\* processor's input channel.
StoreInOrder ==
    (IsInstr({3}) /\ last.ret = "true") =>
        LET p == last.proc
            k == Len(rcvd[p])
        IN  /\ k >= 1
            /\ k <= Len(sent[p])
            /\ Cell(mem[p], Operand(0)) = sent[p][k]
            /\ ip[p] = last.ip + 2

\* What was received from a channel, followed by what waits in it, is what
\* was sent on it, in order.
ChannelInOrder == \A c \in DOMAIN chan : rcvd[c] \o chan[c] = sent[c]

\* A Show puts its operand's value behind everything sent before.
ShowInOrder ==
    (IsInstr({4}) /\ last.ret = "true") =>
        LET w == harness.wire[last.proc]
        IN  /\ chan[w] = Append(last.chan[w], SourceValue(0))
            /\ sent[w] # <<>>
            /\ sent[w][Len(sent[w])] = SourceValue(0)

\* Processor p is running at a Store whose operand cell is in memory and
\* whose destination is a position.
AtStore(p) ==
    /\ status[p] = "running"
    /\ InMem(mem[p], ip[p])
    /\ InMem(mem[p], ip[p] + 1)
    /\ Cell(mem[p], ip[p]) > 0
    /\ Cell(mem[p], ip[p]) % 100 = 3
    /\ ModeDigit(Cell(mem[p], ip[p]), 0) = 0
    /\ Cell(mem[p], ip[p] + 1) >= 0

\* A Store on an empty input channel with a live sender waits: no step
\* is a run_instr call of the processor or changes its memory or ip.
StoreWaits ==
    \A p \in DOMAIN status :
        (AtStore(p) /\ chan[p] = <<>> /\ senderAlive[p]) =>
            /\ mem'[p] = mem[p]
            /\ ip'[p] = ip[p]
            /\ steps'[p] = steps[p]

\* C10: channel delivery is strict FIFO: the k-th Store of a processor
\* writes the k-th value sent on its input channel, a Store on an empty
\* input channel with a live sender changes neither memory nor ip until a
\* value arrives, and the values received from the output channel are the
\* Show operand values in execution order.
C10_Fifo ==
    /\ [](StoreInOrder /\ ChannelInOrder /\ ShowInOrder)
    /\ [][StoreWaits]_vars

\* The driver sent 8 then 7 and received 8, 7 and the literal 5, the
\* program having halted.
C10_Witness ==
    /\ harness.name = "fifo"
    /\ sent["A"] = <<8, 7>>
    /\ rcvd["drv"] = <<8, 7, 5>>
    /\ status["A"] = "halted"

-----------------------------------------------------------------------------
(* C11: Store and Show on a channel whose other endpoint is dropped.       *)

\* A Store whose destination is a position, decoded from inside memory.
C11_StoreCase ==
    /\ IsInstr({3})
    /\ InMem(last.mem, last.ip + 1)
    /\ ModeDigit(PreWord, 0) = 0
    /\ Operand(0) >= 0

\* A Show whose operand cell is in memory and whose source can be fetched.
C11_ShowCase ==
    /\ IsInstr({4})
    /\ InMem(last.mem, last.ip + 1)
    /\ SourceInBounds(0)

\* The step failed with error e and changed neither memory, ip nor a channel.
C11_Failed(e) ==
    /\ FailedUntouched
    /\ last.err = e
    /\ chan = last.chan

\* C11 as claimed: in every state where the Sender of the input channel is
\* dropped a Store fails with the channel error, and where the Receiver of
\* the output channel is dropped a Show does; memory and ip stay.
C11_AsClaimed ==
    /\ (C11_StoreCase /\ ~senderAlive[last.proc]) =>
            C11_Failed("Processor recv() error")
    /\ (C11_ShowCase /\ ~rcvAlive[harness.wire[last.proc]]) =>
            C11_Failed("Processor output channel send error.")

\* The step the amended claim describes.
C11_Step ==
    /\ (C11_StoreCase /\ ~senderAlive[last.proc]) =>
            IF last.chan[last.proc] = <<>>
            THEN C11_Failed("Processor recv() error")
            ELSE /\ last.recv
                 /\ chan[last.proc] = Tail(last.chan[last.proc])
                 /\ InMem(last.mem, Operand(0)) =>
                        /\ last.ret = "true"
                        /\ mem[last.proc] =
                             WriteCell(last.mem, Operand(0),
                                       Head(last.chan[last.proc]))
                        /\ ip[last.proc] = last.ip + 2
    /\ (C11_ShowCase /\ ~rcvAlive[harness.wire[last.proc]]) =>
            C11_Failed("Processor output channel send error.")

\* A processor that failed executes nothing more.
C11_Dead ==
    \A p \in DOMAIN status :
        status[p] = "panicked" =>
            /\ status'[p] = "panicked"
            /\ steps'[p] = steps[p]
            /\ calls'[p] = calls[p]
            /\ mem'[p] = mem[p]
            /\ ip'[p] = ip[p]

\* C11 (amended): a Show whose output Receiver is dropped fails at once with
\* the channel error, and so does a Store whose input Sender is dropped
\* while the input queue is empty: no memory write, no ip change, no later
\* instruction.  A Store that finds a value still queued receives it and
\* goes on as usual although the Sender is dropped.
C11_PeerDropped == []C11_Step /\ [][C11_Dead]_vars

\* A Store failed on the empty input channel whose Sender was dropped.
C11_Witness ==
    /\ C11_StoreCase
    /\ ~senderAlive[last.proc]
    /\ last.chan[last.proc] = <<>>
    /\ C11_Failed("Processor recv() error")
    /\ steps[last.proc] >= 1

-----------------------------------------------------------------------------
(* C12: ip while the processor runs.                                       *)

\* C12 as claimed: in every state in which the processor is still running,
\* ip is a valid index into memory.
C12_AsClaimed ==
    \A p \in DOMAIN status :
        status[p] = "running" => InMem(mem[p], ip[p])

\* C12 (amended): ip is never negative, but a running processor's ip can
\* lie at or beyond the end of memory (a jump to such a target, or the
\* advance past an instruction that ends in the last cell).  No instruction
\* is fetched from there: the next step fails with "Invalid memory address"
\* having read no cell and changed neither memory, ip nor a channel.
C12_IpCheckedAtFetch ==
    /\ \A p \in DOMAIN ip : ip[p] >= 0
    /\ (Stepped /\ ~InMem(last.mem, last.ip)) =>
            /\ FailedUntouched
            /\ last.err = "Invalid memory address"
            /\ last.reads = {}
            /\ chan = last.chan

\* A step was attempted with ip beyond memory, two steps into the run.
C12_Witness ==
    /\ Stepped
    /\ ~InMem(last.mem, last.ip)
    /\ last.ip >= Len(last.mem)
    /\ FailedUntouched
    /\ steps[last.proc] >= 2

-----------------------------------------------------------------------------
(* C13: run() called again after it returned through Halt or Unknown.      *)

\* The last step belongs to a later call of run().
C13_Case == Stepped /\ calls[last.proc] > 1

\* What such a step does: it decodes the same stopping word again and
\* returns false, with memory, ip and the channels as they were.
C13_Step ==
    C13_Case =>
        /\ last.ret = "false"
        /\ last.op \in {"Halt", "Unknown"}
        /\ status[last.proc] \in {"halted", "unknown"}
        /\ steps[last.proc] = 1
        /\ mem[last.proc] = last.mem
        /\ ip[last.proc] = last.ip
        /\ ~last.recv
        /\ last.send = <<>>
        /\ chan = last.chan

\* A later call of run() starts from the ip and the memory the earlier call
\* left: calling run() is no mutator.
C13_Call ==
    \A p \in DOMAIN calls :
        calls'[p] # calls[p] =>
            /\ status[p] \in {"halted", "unknown"}
            /\ status'[p] = "running"
            /\ mem' = mem
            /\ ip' = ip
            /\ chan' = chan

\* C13: once run() has returned because of Halt or Unknown, every later
\* run() call made with no set_ip, set_memory, set_input or set_output in
\* between returns after one run_instr call that writes no memory, leaves
\* ip where it was and performs no channel operation.
C13_HaltedIsTerminal == []C13_Step /\ [][C13_Call]_vars

\* run() was called again on a processor that had executed instructions
\* before it stopped, and returned at once.
C13_Witness ==
    /\ C13_Case
    /\ last.ret = "false"
    /\ last.ip > 0
    /\ status[last.proc] \in {"halted", "unknown"}

-----------------------------------------------------------------------------
(* C14: what one step may change.                                          *)

\* The addresses whose cell the last step changed.
C14_Changed ==
    { a \in 0 .. (Len(last.mem) - 1) :
        Cell(mem[last.proc], a) # Cell(last.mem, a) }

\* At most one cell changes and memory keeps its length.
C14_Memory ==
    Stepped =>
        /\ Len(mem[last.proc]) = Len(last.mem)
        /\ Cardinality(C14_Changed) <= 1

\* A step after which run() goes on set ip to ip + 1 + the operand count of
\* the instruction, or, for JmpT and JmpF, to the jump target.
C14_Ip ==
    (Stepped /\ last.ret = "true") =>
        /\ IsInstr({1, 2, 3, 4, 5, 6, 7, 8})
        /\ LET op == PreWord % 100
           IN  CASE op \in {1, 2, 7, 8} -> ip[last.proc] = last.ip + 4
                 [] op \in {3, 4} -> ip[last.proc] = last.ip + 2
                 [] op \in {5, 6} ->
                      \/ ip[last.proc] = last.ip + 3
                      \/ SourceInBounds(1) /\ ip[last.proc] = SourceValue(1)

\* Store and Show alone operate on a channel: a Store that completes
\* receives one value and sends none, a Show that completes sends one value,
\* receives none and writes no memory.
C14_Channels ==
    Stepped =>
        LET p == last.proc
            w == harness.wire[last.proc]
        IN  /\ ~IsInstr({3, 4}) =>
                  chan = last.chan /\ ~last.recv /\ last.send = <<>>
            /\ IsInstr({3}) =>
                  /\ last.send = <<>>
                  /\ chan[w] = last.chan[w]
                  /\ last.ret = "true" =>
                        /\ last.recv
                        /\ chan = [last.chan EXCEPT ![p] = Tail(@)]
            /\ IsInstr({4}) =>
                  /\ ~last.recv
                  /\ mem[p] = last.mem
                  /\ chan[p] = last.chan[p]
                  /\ last.ret = "true" =>
                        /\ Len(last.send) = 1
                        /\ chan = [last.chan EXCEPT ![w] = Append(@, last.send[1])]

\* C14: every step changes at most one memory cell; every step that does
\* not end the run sets ip to ip + 1 + operand count (4 for Add, Mul,
\* LessThan, Equals; 2 for Store, Show; 3 for a jump not taken) or to the
\* jump target; Store and Show are the only instructions that operate on a
\* channel, one receive for Store and one send for Show, and Show writes no
\* memory.
C14_Frame == C14_Memory /\ C14_Ip /\ C14_Channels

\* A Store completed and changed the one cell it addresses.
C14_Witness ==
    /\ IsInstr({3})
    /\ last.ret = "true"
    /\ Cardinality(C14_Changed) = 1
    /\ ip[last.proc] = last.ip + 2

-----------------------------------------------------------------------------
(* C15: a failing step and its effects.                                    *)

\* C15: whenever a step fails, memory, ip and the contents of both channels
\* are exactly as they were before the step, also for a Store whose
\* position-mode destination is at or beyond the end of memory.
C15_AsClaimed ==
    (Stepped /\ last.ret = "panic") =>
        /\ mem[last.proc] = last.mem
        /\ ip[last.proc] = last.ip
        /\ chan = last.chan

-----------------------------------------------------------------------------
(* C16: an instruction whose operand cells reach beyond memory.            *)

\* The operand count of the instruction word w.
C16_Count(w) ==
    IF w % 100 \in {1, 2, 7, 8} THEN 3
    ELSE IF w % 100 \in {5, 6} THEN 2
    ELSE 1

\* ip is outside memory, or the word at ip is an instruction with k
\* operands and ip + k is outside memory.
C16_Case ==
    /\ Stepped
    /\ InMem(last.mem, last.ip) =>
          /\ IsInstr({1, 2, 3, 4, 5, 6, 7, 8})
          /\ ~InMem(last.mem, last.ip + C16_Count(PreWord))

\* An operand cell inside memory holds a negative value in position mode.
C16_NegativePosition ==
    /\ InMem(last.mem, last.ip)
    /\ \E n \in 0 .. 2 :
          /\ n < C16_Count(PreWord)
          /\ InMem(last.mem, last.ip + 1 + n)
          /\ ModeDigit(PreWord, n) = 0
          /\ Operand(n) < 0

\* The step failed at decode: it read cells of the instruction alone and
\* changed neither memory, ip nor a channel.
C16_FailedAtDecode ==
    /\ FailedUntouched
    /\ chan = last.chan
    /\ ~last.recv
    /\ last.send = <<>>
    /\ \A a \in last.reads : a >= last.ip /\ a <= last.ip + 3

\* C16 as claimed: such a step fails with a bounds error before any effect.
C16_AsClaimed ==
    C16_Case =>
        /\ C16_FailedAtDecode
        /\ last.err \in {"Invalid memory address", "index out of bounds"}

\* C16 (amended): such a step fails fatally before any effect, jumps that
\* would not be taken included; the error is the bounds error unless an
\* operand cell that lies inside memory holds a negative value in position
\* mode, which fails the decode with the addressing error first.
C16_MissingOperand ==
    C16_Case =>
        /\ C16_FailedAtDecode
        /\ IF C16_NegativePosition
           THEN last.err = "try_into unwrap"
           ELSE IF InMem(last.mem, last.ip)
           THEN last.err = "index out of bounds"
           ELSE last.err = "Invalid memory address"

\* A JmpF whose condition is non-zero, so that it would not jump, failed
\* because the cell of its target is beyond memory.
C16_Witness ==
    /\ IsInstr({6})
    /\ InMem(last.mem, last.ip + 1)
    /\ ~InMem(last.mem, last.ip + 2)
    /\ SourceInBounds(0)
    /\ SourceValue(0) # 0
    /\ C16_FailedAtDecode
    /\ last.err = "index out of bounds"

-----------------------------------------------------------------------------
(* C17: a negative value in position mode.                                 *)

\* The word at ip is an instruction one of whose operands, in position
\* mode, holds a negative value.
C17_Case ==
    /\ IsInstr({1, 2, 3, 4, 5, 6, 7, 8})
    /\ C16_NegativePosition

\* C17: an instruction with a position-mode operand whose value is negative
\* fails with the addressing error at decode, before any memory write, ip
\* change or channel operation, whichever operand it is: a source, a
\* destination, or the target of a jump that would not be taken.
C17_NegativeAddress ==
    C17_Case =>
        /\ C16_FailedAtDecode
        /\ last.err = "try_into unwrap"
        /\ last.op = "Panic"

\* A JmpT whose condition is the literal 0 failed on its negative target.
C17_Witness ==
    /\ IsInstr({5})
    /\ InMem(last.mem, last.ip + 2)
    /\ ModeDigit(PreWord, 0) = 1
    /\ Operand(0) = 0
    /\ ModeDigit(PreWord, 1) = 0
    /\ Operand(1) < 0
    /\ FailedUntouched
    /\ last.err = "try_into unwrap"

-----------------------------------------------------------------------------
(* C18: opcode and parameter modes of the instruction word.                *)

\* The word is a positive number whose two low digits name an instruction.
C18_Known(w) == w > 0 /\ w % 100 \in {1, 2, 3, 4, 5, 6, 7, 8, 99}

\* The operand count the opcode stands for.
C18_Count(w) ==
    IF ~C18_Known(w) \/ w % 100 = 99 THEN 0 ELSE C16_Count(w)

\* C18: the instruction is the one named by word mod 100 (a word that is 0
\* or negative names none), and operand n, whose value is the cell at
\* ip + 1 + n, is a Position exactly when decimal digit n of word / 100 is 0
\* and an Immediate for each of the digits 1 .. 9, whatever the digits of
\* the other operands are; digits the word does not have count as 0.  A
\* decode that fails has parsed the operands before the failing one so,
\* and fails on a missing cell or on a negative value in position mode.
C18_Decode ==
    (Stepped /\ InMem(last.mem, last.ip)) =>
        LET w == PreWord
            k == C18_Count(w)
            parsed == Len(last.params)
        IN  /\ last.op # "Panic" =>
                  /\ last.op = IF C18_Known(w) THEN InstrName(w % 100)
                               ELSE "Unknown"
                  /\ parsed = k
            /\ parsed <= k
            /\ \A n \in 0 .. 2 :
                  n < parsed =>
                      /\ last.params[n + 1].n = Operand(n)
                      /\ last.params[n + 1].tag =
                            IF ModeDigit(w, n) = 0 THEN "Position"
                            ELSE "Immediate"
            /\ last.op = "Panic" =>
                  /\ parsed < k
                  /\ \/ ~InMem(last.mem, last.ip + 1 + parsed)
                     \/ ModeDigit(w, parsed) = 0 /\ Operand(parsed) < 0

\* The word 6002 was decoded as a Mul of a Position and the Immediate of
\* mode digit 6 into a Position, and the step completed.
C18_Witness ==
    /\ Stepped
    /\ InMem(last.mem, last.ip)
    /\ PreWord = 6002
    /\ last.op = "Mul"
    /\ last.ret = "true"
    /\ [n \in 1 .. 3 |-> last.params[n].tag] =
          <<"Position", "Immediate", "Position">>

-----------------------------------------------------------------------------
(* C19: the size of memory and the range of its cells.                     *)

\* The last step decoded an instruction that writes, whose destination is a
\* position at or beyond the end of memory.
C19_WriteBeyond ==
    \/ /\ IsInstr({1, 2, 7, 8})
       /\ InMem(last.mem, last.ip + 3)
       /\ ModeDigit(PreWord, 2) = 0
       /\ Operand(2) >= Len(last.mem)
    \/ /\ IsInstr({3})
       /\ InMem(last.mem, last.ip + 1)
       /\ ModeDigit(PreWord, 0) = 0
       /\ Operand(0) >= Len(last.mem)

\* C19: in every reachable state the memory of a processor has the length
\* it had when run() started and every cell holds a signed 32-bit value,
\* also after an Add or Mul whose result overflowed; a write to a position
\* at or beyond the length fails and leaves memory as it was.
C19_FixedSize ==
    /\ \A p \in DOMAIN mem :
          /\ Len(mem[p]) = harness.size[p]
          /\ \A a \in 0 .. (Len(mem[p]) - 1) : IsI32(Cell(mem[p], a))
    /\ C19_WriteBeyond =>
          /\ last.ret = "panic"
          /\ status[last.proc] = "panicked"
          /\ mem[last.proc] = last.mem

\* An Add whose sum overflowed has written the wrapped value into a memory
\* of the same length.
C19_Witness ==
    /\ C1_Case
    /\ PreWord % 100 = 1
    /\ AddOverflows(SourceValue(0), SourceValue(1))
    /\ last.ret = "true"
    /\ Cell(mem[last.proc], Operand(2)) < 0
    /\ Len(mem[last.proc]) = harness.size[last.proc]

-----------------------------------------------------------------------------
(* C20: runs that execute no jump.                                         *)

\* A step other than a jump after which run() goes on has moved ip forward.
C20_Forward ==
    (Stepped /\ last.ret = "true" /\ ~IsInstr({5, 6})) =>
        ip[last.proc] > last.ip

\* C20: while a processor has executed no JmpT and no JmpF, every step that
\* does not end the run moves ip forward, so that run() makes at most
\* len(mem) run_instr calls: a processor still running has made fewer.  (A
\* Store waits until a value is queued or the Sender is dropped; the steps
\* counted are the calls made.)
C20_StraightLine ==
    /\ C20_Forward
    /\ \A p \in DOMAIN jumps :
          jumps[p] = 0 =>
              /\ steps[p] <= Len(mem[p])
              /\ status[p] = "running" => steps[p] < Len(mem[p])

\* The first run() of the two-value program ended with its Halt, the sixth
\* step, without a jump.
C20_Witness ==
    /\ harness.name = "fifo"
    /\ jumps["A"] = 0
    /\ calls["A"] = 1
    /\ steps["A"] = 6
    /\ status["A"] = "halted"
    /\ last.op = "Halt"

=============================================================================
